---- MODULE Spec2Model ----
(***************************************************************************)
(* Online-presence tracker of interludes_bot (src/main.rs).                *)
(*                                                                         *)
(* The shared TypeMap `ctx.data` holds two values behind one tokio RwLock: *)
(* the CommandCounter and the OnlineTracker.  Event handlers               *)
(* (presence_update, ready) and commands (add, whosonline, with their      *)
(* before/after hooks) run as concurrent tasks that take the write half    *)
(* of that lock.  One time unit of `clock` is one second of Instant.       *)
(***************************************************************************)
EXTENDS Integers, Sequences, FiniteSets, TLC

\* ------------------------------------------------------------------ bounds
MaxTime == 1
MaxEvents == 3
MaxElapsed == 7325

\* Two members are enough to tell "this id" from "another id".
Users == {1, 2}

\* ------------------------------------------------------------- status values
\* serenity's OnlineStatus; "Unknown" stands for any value the wildcard arm
\* of the two matches catches besides Offline.
Status == {"DoNotDisturb", "Idle", "Invisible", "Offline", "Online", "Unknown"}

\* The partition the documentation fixes: busy, idle, invisible, active.
OnlineClass == {"DoNotDisturb", "Idle", "Invisible", "Online"}

\* match new_data.presence.status { ... } in presence_update
online_presence_update(status) ==
    CASE status = "DoNotDisturb" -> TRUE
      [] status = "Idle" -> TRUE
      [] status = "Invisible" -> TRUE
      [] status = "Online" -> TRUE
      [] OTHER -> FALSE

\* Variant: the snapshot loader's match misses the Invisible arm.
online_ready_no_invisible(status) ==
    CASE status = "DoNotDisturb" -> TRUE
      [] status = "Idle" -> TRUE
      [] status = "Online" -> TRUE
      [] OTHER -> FALSE

\* match presence.status { ... } in the filter_map closure of ready
online_ready(status) ==
    CASE status = "DoNotDisturb" -> TRUE
      [] status = "Idle" -> TRUE
      [] status = "Invisible" -> TRUE
      [] status = "Online" -> TRUE
      [] OTHER -> FALSE

\* ------------------------------------------------------- HashMap operations
\* HashMap<UserId, Instant> is a function whose domain is the key set.
EmptyMap == [x \in {} |-> 0]

contains_key(map, k) == k \in DOMAIN map

insert(map, k, v) == [x \in (DOMAIN map) \cup {k} |-> IF x = k THEN v ELSE map[x]]

remove(map, k) == [x \in (DOMAIN map) \ {k} |-> map[x]]

\* ------------------------------------------------ bodies of the two handlers
\* Variant: the insert is not guarded by contains_key (line 59 as `if online`).
presence_update_body_always_insert(map, user_id, status, now) ==
    LET online == online_presence_update(status)
        step1 == IF online THEN insert(map, user_id, now) ELSE map
    IN IF ~online THEN remove(step1, user_id) ELSE step1

\* Variant: the removal of lines 62-64 is missing.
presence_update_body_no_remove(map, user_id, status, now) ==
    LET online == online_presence_update(status)
    IN IF online /\ ~contains_key(map, user_id)
       THEN insert(map, user_id, now)
       ELSE map

\* Variant: an offline notification clears the map instead of one key.
presence_update_body_clear(map, user_id, status, now) ==
    LET online == online_presence_update(status)
        step1 == IF online /\ ~contains_key(map, user_id)
                 THEN insert(map, user_id, now)
                 ELSE map
    IN IF ~online THEN EmptyMap ELSE step1

\* Variant: a newly seen id replaces the map instead of joining it.
presence_update_body_replace(map, user_id, status, now) ==
    LET online == online_presence_update(status)
        step1 == IF online /\ ~contains_key(map, user_id)
                 THEN insert(EmptyMap, user_id, now)
                 ELSE map
    IN IF ~online THEN remove(step1, user_id) ELSE step1

\* Lines 53-64: the critical section of presence_update.
presence_update_body(map, user_id, status, now) ==
    LET online == online_presence_update(status)
        step1 == IF online /\ ~contains_key(map, user_id)
                 THEN insert(map, user_id, now)
                 ELSE map
    IN IF ~online THEN remove(step1, user_id) ELSE step1

\* Variant: the closure's test is inverted.
filter_presence_inverted(id, status, now) ==
    IF online_ready(status) THEN {} ELSE {<<id, now>>}

\* The closure given to filter_map: Some((id, now)) or None (as a set of 0/1 pairs).
filter_presence(id, status, now) ==
    IF online_ready(status) THEN {<<id, now>>} ELSE {}

\* guild.presences.iter().filter_map(..).collect(): fold over the listing.
RECURSIVE collect(_, _, _, _)
collect(presences, todo, now, acc) ==
    IF todo = {} THEN acc
    ELSE LET id == CHOOSE x \in todo : TRUE
             kept == filter_presence(id, presences[id], now)
             acc2 == IF kept = {} THEN acc
                     ELSE LET pair == CHOOSE q \in kept : TRUE
                          IN insert(acc, pair[1], pair[2])
         IN collect(presences, todo \ {id}, now, acc2)

ready_install(presences, now) == collect(presences, DOMAIN presences, now, EmptyMap)

\* A guild's presence listing: a status for each member the cache knows.
Listings == UNION {[D -> Status] : D \in SUBSET Users}

\* ------------------------------------------------------------------- state
VARIABLES
    tracker,    \* data[OnlineTracker]
    counter,    \* data[CommandCounter]: command name -> number of runs
    locked,     \* TRUE while some task holds the guard of ctx.data.write()
    clock,      \* Instant::now()
    tasks,      \* in-flight handler and command tasks, in order of delivery
    last,       \* history: the last handler that ran a critical section on the tracker
    delivered,  \* number of events the gateway has delivered
    data,       \* the keys of the TypeMap ctx.data
    main_pc,    \* where main is: "built", "inserted", "started"
    believed    \* history: ids believed online by the rule of the documentation

vars == <<tracker, counter, locked, clock, tasks, last, delivered, data, main_pc, believed>>

Commands == {"add", "whosonline"}

NewTask ==
    [kind |-> "none", pc |-> "start", seq |-> 0, now |-> 0,
     guildId |-> FALSE, cur |-> <<>>, lines |-> <<>>, result |-> "none",
     sent |-> FALSE, snap |-> EmptyMap]

NoOp ==
    [op |-> "none", uid |-> 0, status |-> "Offline", had |-> FALSE,
     ctx |-> "none", panicked |-> FALSE]

\* A command returns its CommandResult to the framework; its locals are gone.
\* result is "ok" or the error: "no_guild" ("Must be used in guild"),
\* "member_err" (the lookup's error), "reply_err" (the send's error).
\* `sent` tells whether msg.reply delivered a message.
returned(task, result, sent) ==
    [NewTask EXCEPT !.kind = task.kind, !.pc = "after",
                    !.result = result, !.sent = sent]

\* The task at position i has returned (or unwound) and is dropped.
drop_task(i) == [j \in 1..(Len(tasks) - 1) |-> IF j < i THEN tasks[j] ELSE tasks[j + 1]]

\* The values main puts into ctx.data.
DataKeys == {"CommandCounter", "OnlineTracker"}

\* Lines 119-125: the client is built; its TypeMap is empty and nothing runs.
\* (tracker and counter already show the default maps that main will insert.)
Init ==
    /\ tracker = EmptyMap
    /\ counter = [c \in Commands |-> 0]
    /\ locked = FALSE
    /\ clock = 0
    /\ tasks = <<>>
    /\ last = NoOp
    /\ believed = {}
    /\ delivered = 0
    /\ data = {}
    /\ main_pc = "built"

\* Lines 127-131: under client.data.write(), main inserts the two default
\* maps; the guard drops at the end of the block.
main_insert ==
    /\ main_pc = "built"
    /\ ~locked
    /\ data' = data \cup DataKeys
    /\ tracker' = EmptyMap
    /\ counter' = [c \in Commands |-> 0]
    /\ main_pc' = "inserted"
    /\ UNCHANGED <<locked, clock, tasks, last, believed, delivered>>

\* Variant: the client is started before the maps are inserted.
main_start_early ==
    /\ main_pc = "built"
    /\ main_pc' = "started"
    /\ UNCHANGED <<tracker, counter, locked, clock, tasks, last, believed, delivered, data>>

\* Lines 133-135: client.start() begins to dispatch events.
main_start ==
    /\ main_pc = "inserted"
    /\ main_pc' = "started"
    /\ UNCHANGED <<tracker, counter, locked, clock, tasks, last, believed, delivered, data>>

\* RwLock::write().await completes only when nobody holds the lock.
can_write == ~locked

\* Time passes.
Tick ==
    /\ clock < MaxTime
    /\ clock' = clock + 1
    /\ UNCHANGED <<tracker, counter, locked, tasks, last, believed, delivered, data, main_pc>>

\* ---------------------------------------------------------------- dispatch
\* The gateway delivers a presence update; the handler is spawned.  seq is
\* the notification's place in the order of delivery.
dispatch_presence_update ==
    /\ main_pc = "started"
    /\ delivered < MaxEvents
    /\ delivered' = delivered + 1
    /\ tasks' = Append(tasks, [NewTask EXCEPT !.kind = "presence_update",
                                              !.seq = delivered + 1])
    /\ UNCHANGED <<tracker, counter, locked, clock, last, believed, data, main_pc>>

\* ------------------------------------------------------- presence_update
\* Lines 48-65.  The body has no await after the lock is taken, so the
\* critical section is one step; the guard is released when `data` drops.
\* new_data.presence carries any user id and any status.
presence_update(i) ==
    /\ tasks[i].kind = "presence_update"
    /\ tasks[i].pc = "start"
    /\ can_write
    /\ \E user_id \in Users, status \in Status :
         /\ tracker' = presence_update_body(tracker, user_id, status, clock)
         /\ last' = [NoOp EXCEPT !.op = "presence_update", !.uid = user_id,
                                 !.status = status,
                                 !.had = contains_key(tracker, user_id)]
         /\ believed' = IF status \in OnlineClass
                        THEN believed \cup {user_id}
                        ELSE believed \ {user_id}
    /\ tasks' = drop_task(i)
    /\ UNCHANGED <<counter, locked, clock, delivered, data, main_pc>>

\* ------------------------------------------------------------------ ready
\* The gateway delivers Ready; the handler is spawned.
dispatch_ready ==
    /\ main_pc = "started"
    /\ delivered < MaxEvents
    /\ delivered' = delivered + 1
    /\ tasks' = Append(tasks, [NewTask EXCEPT !.kind = "ready"])
    /\ UNCHANGED <<tracker, counter, locked, clock, last, believed, data, main_pc>>

\* Lines 67-68: take the write lock, then read the clock.
ready_acquire(i) ==
    /\ tasks[i].kind = "ready"
    /\ tasks[i].pc = "start"
    /\ can_write
    /\ locked' = TRUE
    /\ tasks' = [tasks EXCEPT ![i].pc = "locked", ![i].now = clock]
    /\ UNCHANGED <<tracker, counter, clock, last, believed, delivered, data, main_pc>>

\* Line 73 when the payload's ready.guilds is empty: the index [0] panics,
\* the task unwinds and the guard is dropped with the tracker as it was.
ready_panic(i) ==
    /\ tasks[i].kind = "ready"
    /\ tasks[i].pc = "locked"
    /\ locked' = FALSE
    /\ last' = [NoOp EXCEPT !.op = "ready", !.ctx = "no_guilds", !.panicked = TRUE,
                            !.had = (tracker # EmptyMap)]
    /\ tasks' = drop_task(i)
    /\ UNCHANGED <<tracker, counter, clock, believed, delivered, data, main_pc>>

\* Line 73 when ready.guilds has a first entry and to_guild_cached gives
\* None: the if-let body is skipped.
ready_unresolved(i) ==
    /\ tasks[i].kind = "ready"
    /\ tasks[i].pc = "locked"
    /\ locked' = FALSE
    /\ last' = [NoOp EXCEPT !.op = "ready", !.ctx = "unresolved",
                            !.had = (tracker # EmptyMap)]
    /\ tasks' = drop_task(i)
    /\ UNCHANGED <<tracker, counter, clock, believed, delivered, data, main_pc>>

\* Lines 73-91 when ready.guilds has a first entry and to_guild_cached gives
\* Some(guild): the tracker is replaced by the collected map.
ready_resolved(i) ==
    /\ tasks[i].kind = "ready"
    /\ tasks[i].pc = "locked"
    /\ \E presences \in Listings :
         /\ tracker' = ready_install(presences, tasks[i].now)
         /\ believed' = {id \in DOMAIN presences : presences[id] \in OnlineClass}
    /\ locked' = FALSE
    /\ last' = [NoOp EXCEPT !.op = "ready", !.ctx = "resolved",
                            !.had = (tracker # EmptyMap)]
    /\ tasks' = drop_task(i)
    /\ UNCHANGED <<counter, clock, delivered, data, main_pc>>

\* --------------------------------------------------------------- commands
\* The framework receives "!add" or "!whosonline"; msg.guild_id is Some
\* (guildId) or None.  Commands run as: before hook, command, after hook.
dispatch_command ==
    /\ main_pc = "started"
    /\ delivered < MaxEvents
    /\ delivered' = delivered + 1
    /\ \E name \in Commands, g \in BOOLEAN :
         /\ name = "add" => ~g
         /\ tasks' = Append(tasks, [NewTask EXCEPT !.kind = name, !.pc = "before",
                                                   !.guildId = g])
    /\ UNCHANGED <<tracker, counter, locked, clock, last, believed, data, main_pc>>

\* Lines 156-173: the before hook counts the command under the write lock.
before(i) ==
    /\ tasks[i].kind \in Commands
    /\ tasks[i].pc = "before"
    /\ can_write
    /\ counter' = [counter EXCEPT ![tasks[i].kind] = @ + 1]
    /\ tasks' = [tasks EXCEPT ![i].pc = "cmd"]
    /\ UNCHANGED <<tracker, locked, clock, last, believed, delivered, data, main_pc>>

\* Lines 176-181: the after hook prints the result; the task ends.
after(i) ==
    /\ tasks[i].kind \in Commands
    /\ tasks[i].pc = "after"
    /\ tasks' = drop_task(i)
    /\ UNCHANGED <<tracker, counter, locked, clock, last, believed, delivered, data, main_pc>>

\* Lines 189-193: msg.reply(ctx, "Pong!").await?
add(i) ==
    /\ tasks[i].kind = "add"
    /\ tasks[i].pc = "cmd"
    /\ \E ok \in BOOLEAN :
         tasks' = [tasks EXCEPT ![i] = returned(tasks[i], IF ok THEN "ok" ELSE "reply_err", ok)]
    /\ UNCHANGED <<tracker, counter, locked, clock, last, believed, delivered, data, main_pc>>

\* ------------------------------------------------------------- whosonline
\* Variant: the minutes are not reduced modulo 60.
format_line_total_minutes(id, instant, now) ==
    LET secs == now - instant
    IN [name |-> id, since |-> instant,
        hours |-> (secs \div 60) \div 60,
        minutes |-> secs \div 60,
        seconds |-> secs % 60]

\* Lines 208-218: the line of one member.
format_line(id, instant, now) ==
    LET secs == now - instant
    IN [name |-> id, since |-> instant,
        hours |-> (secs \div 60) \div 60,
        minutes |-> (secs \div 60) % 60,
        seconds |-> secs % 60]

\* Entries tracker.iter() has not yielded yet.
remaining(i) == (DOMAIN tracker) \ {tasks[i].lines[k].name : k \in DOMAIN tasks[i].lines}

\* Variant: the guard is not kept over the loop.
whosonline_acquire_unguarded(i) ==
    /\ tasks[i].kind = "whosonline"
    /\ tasks[i].pc = "cmd"
    /\ can_write
    /\ tasks' = [tasks EXCEPT ![i].pc = "iter", ![i].snap = tracker]
    /\ UNCHANGED <<tracker, counter, locked, clock, last, believed, delivered, data, main_pc>>

\* Lines 197-201: take the write lock; reply starts as the header.
whosonline_acquire(i) ==
    /\ tasks[i].kind = "whosonline"
    /\ tasks[i].pc = "cmd"
    /\ can_write
    /\ locked' = TRUE
    /\ tasks' = [tasks EXCEPT ![i].pc = "iter", ![i].snap = tracker]
    /\ UNCHANGED <<tracker, counter, clock, last, believed, delivered, data, main_pc>>

\* Variant: the early return for a missing guild id keeps the guard.
whosonline_next_leak(i) ==
    /\ tasks[i].kind = "whosonline"
    /\ tasks[i].pc = "iter"
    /\ \E userid \in remaining(i) :
         IF tasks[i].guildId
         THEN tasks' = [tasks EXCEPT ![i].pc = "lookup",
                                     ![i].cur = <<userid, tracker[userid]>>]
         ELSE tasks' = [tasks EXCEPT ![i] = returned(tasks[i], "no_guild", FALSE)]
    /\ UNCHANGED <<tracker, counter, locked, clock, last, believed, delivered, data, main_pc>>

\* Lines 202-207: the iterator yields the next (userid, instant); without a
\* guild id the `?` returns the error, else the member lookup is awaited.
whosonline_next(i) ==
    /\ tasks[i].kind = "whosonline"
    /\ tasks[i].pc = "iter"
    /\ \E userid \in remaining(i) :
         IF tasks[i].guildId
         THEN /\ tasks' = [tasks EXCEPT ![i].pc = "lookup",
                                        ![i].cur = <<userid, tracker[userid]>>]
              /\ UNCHANGED locked
         ELSE /\ tasks' = [tasks EXCEPT ![i] = returned(tasks[i], "no_guild", FALSE)]
              /\ locked' = FALSE
    /\ UNCHANGED <<tracker, counter, clock, last, believed, delivered, data, main_pc>>

\* Variant: a failed lookup sends what was collected so far before leaving.
whosonline_member_partial(i) ==
    /\ tasks[i].kind = "whosonline"
    /\ tasks[i].pc = "lookup"
    /\ \E ok \in BOOLEAN :
         IF ok
         THEN /\ tasks' = [tasks EXCEPT
                             ![i].pc = "iter",
                             ![i].cur = <<>>,
                             ![i].lines = Append(@, format_line(tasks[i].cur[1],
                                                                tasks[i].cur[2], clock))]
              /\ UNCHANGED locked
         ELSE /\ tasks' = [tasks EXCEPT ![i] = returned(tasks[i], "member_err", TRUE)]
              /\ locked' = FALSE
    /\ UNCHANGED <<tracker, counter, clock, last, believed, delivered, data, main_pc>>

\* Variant: an entry whose lookup fails is dropped from the tracker.
whosonline_member_prunes(i) ==
    /\ tasks[i].kind = "whosonline"
    /\ tasks[i].pc = "lookup"
    /\ \E ok \in BOOLEAN :
         IF ok
         THEN /\ tasks' = [tasks EXCEPT
                             ![i].pc = "iter",
                             ![i].cur = <<>>,
                             ![i].lines = Append(@, format_line(tasks[i].cur[1],
                                                                tasks[i].cur[2], clock))]
              /\ UNCHANGED <<tracker, locked>>
         ELSE /\ tasks' = [tasks EXCEPT ![i] = returned(tasks[i], "member_err", FALSE)]
              /\ tracker' = remove(tracker, tasks[i].cur[1])
              /\ locked' = FALSE
    /\ UNCHANGED <<counter, clock, last, believed, delivered, data, main_pc>>

\* Lines 207-218: the lookup returns; Err leaves through `?`, Ok appends a line.
whosonline_member(i) ==
    /\ tasks[i].kind = "whosonline"
    /\ tasks[i].pc = "lookup"
    /\ \E ok \in BOOLEAN :
         IF ok
         THEN /\ tasks' = [tasks EXCEPT
                             ![i].pc = "iter",
                             ![i].cur = <<>>,
                             ![i].lines = Append(@, format_line(tasks[i].cur[1],
                                                                tasks[i].cur[2], clock))]
              /\ UNCHANGED locked
         ELSE /\ tasks' = [tasks EXCEPT ![i] = returned(tasks[i], "member_err", FALSE)]
              /\ locked' = FALSE
    /\ UNCHANGED <<tracker, counter, clock, last, believed, delivered, data, main_pc>>

\* Variant: the loop may be left before the iterator is exhausted.
whosonline_reply_early(i) ==
    /\ tasks[i].kind = "whosonline"
    /\ tasks[i].pc = "iter"
    /\ tasks' = [tasks EXCEPT ![i].pc = "reply"]
    /\ UNCHANGED <<tracker, counter, locked, clock, last, believed, delivered, data, main_pc>>

\* Line 220: the loop is over, msg.reply(ctx, reply) is awaited.
whosonline_reply(i) ==
    /\ tasks[i].kind = "whosonline"
    /\ tasks[i].pc = "iter"
    /\ remaining(i) = {}
    /\ tasks' = [tasks EXCEPT ![i].pc = "reply"]
    /\ UNCHANGED <<tracker, counter, locked, clock, last, believed, delivered, data, main_pc>>

\* Lines 220-222: the send returns; the guard drops when the function returns.
whosonline_return(i) ==
    /\ tasks[i].kind = "whosonline"
    /\ tasks[i].pc = "reply"
    /\ \E ok \in BOOLEAN :
         tasks' = [tasks EXCEPT ![i] = returned(tasks[i], IF ok THEN "ok" ELSE "reply_err", ok)]
    /\ locked' = FALSE
    /\ UNCHANGED <<tracker, counter, clock, last, believed, delivered, data, main_pc>>

Next ==
    \/ main_insert
    \/ main_start
    \/ Tick
    \/ dispatch_presence_update
    \/ dispatch_ready
    \/ dispatch_command
    \/ \E i \in DOMAIN tasks : presence_update(i)
    \/ \E i \in DOMAIN tasks : ready_acquire(i)
    \/ \E i \in DOMAIN tasks : ready_panic(i)
    \/ \E i \in DOMAIN tasks : ready_unresolved(i)
    \/ \E i \in DOMAIN tasks : ready_resolved(i)
    \/ \E i \in DOMAIN tasks : before(i)
    \/ \E i \in DOMAIN tasks : add(i)
    \/ \E i \in DOMAIN tasks : whosonline_acquire(i)
    \/ \E i \in DOMAIN tasks : whosonline_next(i)
    \/ \E i \in DOMAIN tasks : whosonline_member(i)
    \/ \E i \in DOMAIN tasks : whosonline_reply(i)
    \/ \E i \in DOMAIN tasks : whosonline_return(i)
    \/ \E i \in DOMAIN tasks : after(i)

Spec == Init /\ [][Next]_vars

\* ------------------------------------------------- durations of any length
\* A query that has just locked a tracker whose one entry is `clock` seconds
\* old: user 1 went Online at instant 0 and the query was sent in a guild.
FormatInit ==
    /\ clock \in 0..MaxElapsed
    /\ tracker = insert(EmptyMap, 1, 0)
    /\ counter = [c \in Commands |-> IF c = "whosonline" THEN 1 ELSE 0]
    /\ locked = TRUE
    /\ tasks = <<[NewTask EXCEPT !.kind = "whosonline", !.pc = "iter",
                                 !.guildId = TRUE, !.snap = insert(EmptyMap, 1, 0)]>>
    /\ last = [NoOp EXCEPT !.op = "presence_update", !.uid = 1, !.status = "Online"]
    /\ believed = {1}
    /\ delivered = 2
    /\ data = DataKeys
    /\ main_pc = "started"

\* The query runs to its end.
FormatNext ==
    \/ \E i \in DOMAIN tasks : whosonline_next(i)
    \/ \E i \in DOMAIN tasks : whosonline_member(i)
    \/ \E i \in DOMAIN tasks : whosonline_reply(i)
    \/ \E i \in DOMAIN tasks : whosonline_return(i)
    \/ \E i \in DOMAIN tasks : after(i)

FormatSpec == FormatInit /\ [][FormatNext]_vars

\* ------------------------------------------------- handlers that are run
\* The client has been started (lines 127-135 are done); no time passes,
\* which no guard of a handler depends on.
FairInit ==
    /\ tracker = EmptyMap
    /\ counter = [c \in Commands |-> 0]
    /\ locked = FALSE
    /\ clock = 0
    /\ tasks = <<>>
    /\ last = NoOp
    /\ believed = {}
    /\ delivered = 0
    /\ data = DataKeys
    /\ main_pc = "started"

\* A step of some spawned task: the runtime polls it, the lock is granted,
\* or the lookup or send it awaits returns.
Progress ==
    \E i \in DOMAIN tasks :
        \/ presence_update(i)
        \/ ready_acquire(i)
        \/ ready_panic(i)
        \/ ready_unresolved(i)
        \/ ready_resolved(i)
        \/ before(i)
        \/ add(i)
        \/ whosonline_acquire(i)
        \/ whosonline_next(i)
        \/ whosonline_member(i)
        \/ whosonline_reply(i)
        \/ whosonline_return(i)
        \/ after(i)

FairNext ==
    \/ dispatch_presence_update
    \/ dispatch_ready
    \/ dispatch_command
    \/ Progress

\* The runtime keeps polling tasks that can run, the lock is granted when
\* free, and awaited lookups and sends return.
FairSpec == FairInit /\ [][FairNext]_vars /\ WF_vars(Progress)

\* ================================================================= claims
\* The step is the critical section of a presence_update handler; `clock` is
\* its Instant::now() and last' holds the notification it carried.
presence_update_ran ==
    \E i \in DOMAIN tasks : tasks[i].kind = "presence_update" /\ tasks' = drop_task(i)

\* The step ends the ready handler at position i.
ready_ran(i) ==
    /\ tasks[i].kind = "ready"
    /\ tasks[i].pc = "locked"
    /\ tasks' = drop_task(i)

\* The (id, since) pairs of a map, and those a query has put in its reply.
pairs_of(map) == {<<id, map[id]>> : id \in DOMAIN map}
reported(task) == {<<task.lines[k].name, task.lines[k].since>> : k \in DOMAIN task.lines}

\* C1: an id is a key of the tracker iff the most recent notification
\* processed for it since the last installed snapshot was online-class, or
\* there was none and that snapshot listed it with an online-class status.
C1_TrackedIffBelievedOnline == DOMAIN tracker = believed

\* C1 witness: an offline notification has removed a tracked id while
\* another id is still tracked.
C1_Witness ==
    /\ last.op = "presence_update"
    /\ last.had
    /\ last.status \notin OnlineClass
    /\ DOMAIN tracker # {}

\* C2: an online-class notification for an id that is already a key leaves
\* the stored timestamp (and the rest of the tracker) as it was, whatever the
\* online-class status; the timestamp is set, to now, only when the id was absent.
C2_OnlineKeepsTimestamp ==
    [][(presence_update_ran /\ last'.status \in OnlineClass) =>
          /\ contains_key(tracker', last'.uid)
          /\ contains_key(tracker, last'.uid) => tracker' = tracker
          /\ ~contains_key(tracker, last'.uid) => tracker'[last'.uid] = clock]_vars

\* C2 witness: an Idle notification was processed for an id tracked since an
\* earlier instant, and the earlier instant is still stored.
C2_Witness ==
    /\ last.op = "presence_update"
    /\ last.status = "Idle"
    /\ last.had
    /\ contains_key(tracker, last.uid)
    /\ tracker[last.uid] < clock

\* C3: an offline-class notification removes the id when present and keeps
\* every other entry; when the id is absent the tracker is left as it was;
\* applying the same notification again changes nothing.
C3_OfflineRemoves ==
    [][(presence_update_ran /\ last'.status \notin OnlineClass) =>
          /\ ~contains_key(tracker', last'.uid)
          /\ DOMAIN tracker' = (DOMAIN tracker) \ {last'.uid}
          /\ \A id \in DOMAIN tracker' : tracker'[id] = tracker[id]
          /\ ~contains_key(tracker, last'.uid) => tracker' = tracker
          /\ presence_update_body(tracker', last'.uid, last'.status, clock) = tracker']_vars

\* C3 witness: an Offline notification has removed an id that was tracked
\* and another entry is still there.
C3_Witness ==
    /\ last.op = "presence_update"
    /\ last.status = "Offline"
    /\ last.had
    /\ ~contains_key(tracker, last.uid)
    /\ DOMAIN tracker # {}

\* C4: a status is online exactly when it is DoNotDisturb, Idle, Invisible
\* or Online, every other value is offline, both matches agree on every
\* status, and a processed notification leaves its id tracked exactly when
\* its status is in that set.
C4_ClassificationFixed ==
    /\ \A st \in Status :
         /\ online_presence_update(st) = (st \in OnlineClass)
         /\ online_ready(st) = online_presence_update(st)
    /\ last.op = "presence_update" =>
         (contains_key(tracker, last.uid) <=> last.status \in OnlineClass)
    /\ (last.op = "ready" /\ last.ctx = "resolved") => DOMAIN tracker = believed

\* C4 witness: a notification with an unrecognized status was processed for
\* a tracked id, which is no longer tracked.
C4_Witness ==
    /\ last.op = "presence_update"
    /\ last.status = "Unknown"
    /\ last.had
    /\ ~contains_key(tracker, last.uid)

\* C5: when ready resolves the guild, the tracker it leaves is exactly the
\* ids the listing has with an online-class status, each with the single
\* timestamp the handler took.
C5_ReadyInstallsListing ==
    [][\A i \in DOMAIN tasks :
          (ready_ran(i) /\ last'.ctx = "resolved") =>
             tracker' = [id \in believed' |-> tasks[i].now]]_vars

\* C5 witness: a resolved ready has replaced a non-empty tracker by a
\* listing that has some but not all ids online.
C5_Witness ==
    /\ last.op = "ready"
    /\ last.ctx = "resolved"
    /\ last.had
    /\ DOMAIN tracker # {}
    /\ DOMAIN tracker # Users

\* C6 (as claimed): after every run of the ready handler, resolved or not, no
\* entry of the prior state is left: no timestamp is older than the instant
\* the run took when it began (line 68).
C6_ReadyDiscardsPrior ==
    [][\A i \in DOMAIN tasks :
          ready_ran(i) => \A id \in DOMAIN tracker' : tracker'[id] >= tasks[i].now]_vars

\* C7 (as claimed): a ready without guild context (no guilds, or the first
\* one unresolved) ends without a crash and leaves the tracker empty.
C7_NoContextEmptyNoCrash ==
    (last.op = "ready" /\ last.ctx \in {"no_guilds", "unresolved"}) =>
        (~last.panicked /\ tracker = EmptyMap)

\* C8 (as claimed): while a whosonline query waits on a member lookup or on
\* the send of its reply, the write lock is free.
C8_NoLockAcrossIO ==
    \A i \in DOMAIN tasks :
        (tasks[i].kind = "whosonline" /\ tasks[i].pc \in {"lookup", "reply"}) => can_write

\* C9: what a query reports is the tracker at one instant: from its first
\* read to its last the tracker is the one it locked, every pair read is a
\* pair of that tracker, and the finished reply has all of them.
C9_QueryReadsOneSnapshot ==
    \A i \in DOMAIN tasks :
        (tasks[i].kind = "whosonline" /\ tasks[i].pc \in {"iter", "lookup", "reply"}) =>
            /\ tracker = tasks[i].snap
            /\ reported(tasks[i]) \subseteq pairs_of(tasks[i].snap)
            /\ tasks[i].pc = "lookup" =>
                 <<tasks[i].cur[1], tasks[i].cur[2]>> \in pairs_of(tasks[i].snap)
            /\ tasks[i].pc = "reply" => reported(tasks[i]) = pairs_of(tasks[i].snap)

\* C9 witness: a query has read two entries and is sending its reply while a
\* presence_update handler is waiting.
C9_Witness ==
    \E i, j \in DOMAIN tasks :
        /\ tasks[i].kind = "whosonline"
        /\ tasks[i].pc = "reply"
        /\ Len(tasks[i].lines) = 2
        /\ tasks[j].kind = "presence_update"

\* C10: when a member lookup fails the query returns the error with no
\* reply sent, the lock free and the tracker as it was; a query that has
\* returned an error has sent nothing.
C10_LookupFailureAbortsQuery ==
    [][\A i \in DOMAIN tasks :
          (/\ tasks[i].kind = "whosonline"
           /\ tasks[i].pc = "lookup"
           /\ Len(tasks') = Len(tasks)
           /\ tasks'[i] # tasks[i]
           /\ Len(tasks'[i].lines) # Len(tasks[i].lines) + 1) =>
             /\ tasks'[i].pc = "after"
             /\ tasks'[i].result = "member_err"
             /\ ~tasks'[i].sent
             /\ ~locked'
             /\ tracker' = tracker]_vars

\* C10 witness: a query has returned the lookup's error, the lock is free
\* and the tracker still has its entries.
C10_Witness ==
    \E i \in DOMAIN tasks :
        /\ tasks[i].kind = "whosonline"
        /\ tasks[i].pc = "after"
        /\ tasks[i].result = "member_err"
        /\ ~tasks[i].sent
        /\ ~locked
        /\ tracker # EmptyMap

\* C11 (as claimed): a whosonline query of a message without guild id always
\* returns an error and sends no reply, whatever the tracker holds.
C11_NoGuildQueryFails ==
    [][\A i \in DOMAIN tasks :
          (/\ tasks[i].kind = "whosonline"
           /\ ~tasks[i].guildId
           /\ tasks[i].pc \in {"iter", "reply"}
           /\ Len(tasks') = Len(tasks)
           /\ tasks'[i].pc = "after") =>
             /\ tasks'[i].result # "ok"
             /\ ~tasks'[i].sent]_vars

\* C12: a line written for an entry that is s seconds old has
\* hours = s div 3600, minutes = (s div 60) mod 60 and seconds = s mod 60, so
\* minutes < 60, seconds < 60 and hours*3600 + minutes*60 + seconds = s;
\* 3661 seconds give 1h 1m 1s.  (No time passes in FormatSpec, so s is
\* clock - since.)
C12_DurationSplit ==
    \A i \in DOMAIN tasks : \A k \in DOMAIN tasks[i].lines :
        LET line == tasks[i].lines[k]
            s == clock - line.since
        IN /\ s >= 0
           /\ line.hours = s \div 3600
           /\ line.minutes = (s \div 60) % 60
           /\ line.seconds = s % 60
           /\ line.minutes < 60
           /\ line.seconds < 60
           /\ line.hours * 3600 + line.minutes * 60 + line.seconds = s
           /\ s = 3661 => (line.hours = 1 /\ line.minutes = 1 /\ line.seconds = 1)

\* C12 witness: the reply being sent has the line of an entry 3661 seconds
\* old, written as 1h 1m 1s.
C12_Witness ==
    \E i \in DOMAIN tasks :
        /\ tasks[i].pc = "reply"
        /\ Len(tasks[i].lines) = 1
        /\ clock - tasks[i].lines[1].since = 3661
        /\ tasks[i].lines[1].hours = 1
        /\ tasks[i].lines[1].minutes = 1
        /\ tasks[i].lines[1].seconds = 1

\* C13 (as claimed): the critical sections of presence_update handlers run
\* in the order of delivery: the notification whose critical section runs is
\* the earliest delivered of those still waiting.
C13_AppliedInDeliveryOrder ==
    [][\A i \in DOMAIN tasks :
          (tasks[i].kind = "presence_update" /\ tasks' = drop_task(i)) =>
             \A j \in DOMAIN tasks :
                 tasks[j].kind = "presence_update" => tasks[j].seq >= tasks[i].seq]_vars

\* C14 (as claimed): the snapshot install comes before the effect of any
\* presence_update: no presence_update runs its critical section while a
\* ready delivered before it has yet to install, and no install overwrites a
\* tracker whose last change was made by a presence_update.
C14_SnapshotBeforeUpdates ==
    [][/\ \A i \in DOMAIN tasks :
            (tasks[i].kind = "presence_update" /\ tasks' = drop_task(i)) =>
               \A j \in 1..(i - 1) : tasks[j].kind # "ready"
       /\ \A i \in DOMAIN tasks :
            (ready_ran(i) /\ last'.ctx = "resolved") =>
               ~(/\ last.op = "presence_update"
                 /\ last.had # contains_key(tracker, last.uid)
                 /\ tracker' # tracker)]_vars

\* Two presence_update handlers wait for the lock at once.
two_updates_pending ==
    \E i, j \in DOMAIN tasks :
        /\ i < j
        /\ tasks[i].kind = "presence_update"
        /\ tasks[j].kind = "presence_update"

\* C15: when two presence_update handlers are pending and carry different
\* ids, they commute on the key set: applying (u1, s1) now and (u2, s2) at a
\* later instant gives the same keys as applying them the other way round;
\* and a notification for one id leaves the entry of every other id as it
\* was, neither added nor removed nor restamped.
C15_DifferentIdsCommute ==
    two_updates_pending =>
        \A u1 \in Users, s1 \in Status :
            LET one == presence_update_body(tracker, u1, s1, clock)
            IN /\ \A id \in Users \ {u1} :
                    /\ contains_key(one, id) <=> contains_key(tracker, id)
                    /\ contains_key(tracker, id) => one[id] = tracker[id]
               /\ \A u2 \in Users \ {u1}, s2 \in Status, later \in clock..MaxTime :
                    DOMAIN presence_update_body(one, u2, s2, later)
                      = DOMAIN presence_update_body(
                                  presence_update_body(tracker, u2, s2, clock), u1, s1, later)

\* C15 witness: two presence_update handlers are waiting at once, a third
\* has already run, and the tracker holds an entry.
C15_Witness ==
    /\ last.op = "presence_update"
    /\ tracker # EmptyMap
    /\ two_updates_pending

\* The ids named by the lines a query has written.
named(task) == {task.lines[k].name : k \in DOMAIN task.lines}

\* C16: a query whose loop ran to its end sends one reply, the header and
\* one line per entry of the tracker: every tracked id is named by exactly
\* one line, no other id is named, and an empty tracker gives no line.
\* Nothing is sent before that reply, and a query that returns Ok sent it.
C16_OneLinePerEntry ==
    \A i \in DOMAIN tasks :
        tasks[i].kind = "whosonline" =>
            /\ Cardinality(named(tasks[i])) = Len(tasks[i].lines)
            /\ tasks[i].pc = "reply" =>
                 /\ named(tasks[i]) = DOMAIN tracker
                 /\ Len(tasks[i].lines) = Cardinality(DOMAIN tracker)
                 /\ tracker = EmptyMap => tasks[i].lines = <<>>
            /\ tasks[i].pc # "after" => ~tasks[i].sent
            /\ (tasks[i].pc = "after" /\ tasks[i].result = "ok") => tasks[i].sent

\* C16 witness: a query sent in a guild found both ids tracked, both lookups
\* succeeded and the reply with the two lines is being sent.
C16_Witness ==
    \E i \in DOMAIN tasks :
        /\ tasks[i].kind = "whosonline"
        /\ tasks[i].guildId
        /\ tasks[i].pc = "reply"
        /\ DOMAIN tracker = Users
        /\ named(tasks[i]) = Users

\* The step is taken by the command task at position i (its before hook,
\* its body or its after hook).
command_step(i) ==
    /\ tasks[i].kind \in Commands
    /\ \/ Len(tasks') = Len(tasks) /\ tasks'[i] # tasks[i]
       \/ tasks[i].pc = "after" /\ tasks' = drop_task(i)

\* C17: no step of a command changes the tracker: neither whosonline, which
\* holds the write lock, nor add, nor their hooks; from the moment the query
\* has the lock to its return, by success or by error, the tracker is the
\* one it found.
C17_CommandsLeaveTracker ==
    [][\A i \in DOMAIN tasks :
          command_step(i) =>
             /\ tracker' = tracker
             /\ (tasks[i].kind = "whosonline" /\ tasks[i].pc \in {"iter", "lookup", "reply"})
                  => tracker' = tasks[i].snap]_vars

\* C17 witness: a query has sent its reply and returned Ok, and the tracker
\* still has the entry a presence_update made.
C17_Witness ==
    /\ last.op = "presence_update"
    /\ tracker # EmptyMap
    /\ \E i \in DOMAIN tasks :
         /\ tasks[i].kind = "whosonline"
         /\ tasks[i].pc = "after"
         /\ tasks[i].result = "ok"
         /\ tasks[i].sent

\* The values a task will still look up with get_mut(..).expect(..):
\* lines 50-52, 69-71 and 198-200 the tracker, lines 166-168 the counter.
expects(task) ==
    (IF \/ task.kind = "presence_update"
        \/ task.kind = "ready" /\ task.pc = "start"
        \/ task.kind = "whosonline" /\ task.pc \in {"before", "cmd"}
     THEN {"OnlineTracker"} ELSE {})
    \cup
    (IF task.kind \in Commands /\ task.pc = "before"
     THEN {"CommandCounter"} ELSE {})

\* C18: once the client is started both values are in ctx.data and stay
\* there, and every value a pending handler or hook will `expect` is
\* present: no expect can fail.
C18_ExpectNeverFails ==
    /\ main_pc = "started" => DataKeys \subseteq data
    /\ tasks # <<>> => main_pc = "started"
    /\ \A i \in DOMAIN tasks : expects(tasks[i]) \subseteq data

\* C18 witness: a presence_update handler and a command's before hook are
\* both about to look their value up.
C18_Witness ==
    \E i, j \in DOMAIN tasks :
        /\ tasks[i].kind = "presence_update"
        /\ tasks[j].kind \in Commands
        /\ tasks[j].pc = "before"
        /\ expects(tasks[i]) \cup expects(tasks[j]) = DataKeys
        /\ data = DataKeys

\* The task holds the guard of ctx.data.write() across a suspension point.
holds_lock(task) ==
    \/ task.kind = "ready" /\ task.pc = "locked"
    \/ task.kind = "whosonline" /\ task.pc \in {"iter", "lookup", "reply"}

\* C19: the lock is held exactly when one task is inside its critical
\* section (so nobody takes it twice or leaves with it, by return, by error
\* or by panic); and every pending handler completes, the lock holder
\* included: whenever tasks are in flight, later none is.
C19_EveryHandlerFinishes ==
    /\ [](Cardinality({i \in DOMAIN tasks : holds_lock(tasks[i])}) = IF locked THEN 1 ELSE 0)
    /\ ((tasks # <<>>) ~> (tasks = <<>>))

\* C19 witness: a query holds the lock in its loop while a presence_update
\* and a ready wait for it.
C19_Witness ==
    \E i, j, k \in DOMAIN tasks :
        /\ locked
        /\ tasks[i].kind = "whosonline" /\ holds_lock(tasks[i])
        /\ tasks[j].kind = "presence_update"
        /\ tasks[k].kind = "ready" /\ tasks[k].pc = "start"

====
